---- MODULE Spec2Model ----
(***************************************************************************)
(* Task configuration for federated EMNIST character recognition and       *)
(* federated Shakespeare next-character prediction.                        *)
(*                                                                         *)
(*   src/optimization/emnist/federated_emnist.py                           *)
(*   src/optimization/shakespeare/federated_shakespeare.py                 *)
(*                                                                         *)
(* A call of configure_training is a frame: its arguments, its local       *)
(* variables, its position (the source line it is about to run) and its    *)
(* outcome.  One action is one statement group ending in a collaborator    *)
(* call.  A collaborator (dataset loader, model provider, process builder, *)
(* training_utils) is external: its call is recorded in the frame's log    *)
(* with the arguments the code passes, it may raise, and what it returns   *)
(* is the object named by the call that produced it.                       *)
(*                                                                         *)
(*   Spec        one call, and the training loop using what it returned    *)
(*               (tff_model_fn, validation_fn, test_fn)                    *)
(*   SpecCalls   several calls, in sequence or interleaved                 *)
(*   SpecWeight  client_weight_fn on the outputs of one client             *)
(***************************************************************************)
EXTENDS Integers, Sequences, FiniteSets, TLC

VARIABLES
    pc,             \* pc[c]: position of call c
    args,           \* args[c]: arguments of call c
    locals,         \* locals[c]: local variables of call c's frame
    log,            \* log[c]: collaborator invocations made by call c, in order
    result,         \* result[c]: the RunnerSpec returned or the exception raised
    CHAR_VOCAB,     \* shakespeare_dataset.CHAR_VOCAB, read at import
    VOCAB_SIZE,     \* module global of federated_shakespeare, set at import
    built,          \* invocations of tff_model_fn made by the training process
    nobjs,          \* number of objects allocated by the builders so far
    evals,          \* calls of test_fn / validation_fn made by the training loop
    local_outputs,  \* argument of the client_weight_fn call under study
    weight          \* what client_weight_fn returned for it

vars == <<pc, args, locals, log, result, CHAR_VOCAB, VOCAB_SIZE,
          built, nobjs, evals, local_outputs, weight>>

---------------------------------------------------------------------------
(* Bounds *)

NumCalls == 2
MaxVocabLen == 2
MaxFactoryCalls == 2
MaxEvalCalls == 2
MaxRound == 1
MaxTokens == 12
MaxSpread == 12

Calls == 1..NumCalls

---------------------------------------------------------------------------
(* Values *)

None == [kind |-> "None"]
Unbound == [kind |-> "unbound"]

\* What a collaborator call returns: the object named by the call (the
\* frame's log holds the call's arguments).  part selects the component the
\* code unpacks (0: the whole value).
Ret(fn, part) == [kind |-> "obj", from |-> fn, part |-> part]

\* functools.partial(fn, **kw)
partial(fn, kw) == [kind |-> "partial", fn |-> fn, kw |-> kw]

\* A function defined inside configure_training.  It reads the variables of
\* the frame that defined it when it is called: the frame is the one whose
\* locals (or RunnerSpec) hold the closure.
Closure(name) == [kind |-> "closure", fn |-> name]

\* A function or class named at module level.
ModuleFn(name) == [kind |-> "function", fn |-> name]

\* The exception a failing collaborator raises.
Raised(fn) == [kind |-> "error", type |-> "CollaboratorError", from |-> fn]

TaskSpecs ==
    { [client_batch_size |-> 20, client_epochs_per_round |-> 1,
       clients_per_round |-> 10, client_datasets_random_seed |-> 1,
       iterative_process_builder |-> "builder_a"],
      [client_batch_size |-> 4, client_epochs_per_round |-> 2,
       clients_per_round |-> 2, client_datasets_random_seed |-> 7,
       iterative_process_builder |-> "builder_b"] }

ModelFlags == {"cnn", "2nn", "resnet"}
SequenceLengths == {0, 80}

NoFrame ==
    [train |-> Unbound, test |-> Unbound, input_spec |-> Unbound,
     model_builder |-> Unbound, loss_builder |-> Unbound,
     metrics_builder |-> Unbound, tff_model_fn |-> Unbound,
     client_weight_fn |-> Unbound, training_process |-> Unbound,
     client_datasets_fn |-> Unbound, test_fn |-> Unbound,
     validation_fn |-> Unbound]

---------------------------------------------------------------------------
(* federated_emnist.py *)

EMNIST_MODELS == <<"cnn", "2nn">>

\* str.format with {!s}: a str prints as itself, a list prints as
\* ['a', 'b'].  Text is a sequence of pieces.
RECURSIVE ListItems(_)
ListItems(l) ==
    IF l = <<>> THEN <<>>
    ELSE <<"'", Head(l), "'">> \o
         (IF Len(l) > 1 THEN <<", ">> ELSE <<>>) \o ListItems(Tail(l))

StrOfList(l) == <<"[">> \o ListItems(l) \o <<"]">>

ValueErrorOf(model) ==
    [kind |-> "error", type |-> "ValueError", from |-> "configure_training",
     msg |-> <<"Cannot handle model flag [", model, "], must be one of ">>
             \o StrOfList(EMNIST_MODELS) \o <<".">>]


\* Bind, were the variable kept at module level: every frame sees it.
Bind_Shared(L, c, var, val) == [d \in DOMAIN L |-> [L[d] EXCEPT ![var] = val]]

\* Assignment to a local variable of frame c (L: the frames so far).
Bind(L, c, var, val) == [L EXCEPT ![c][var] = val]

\* OnRaise, were the failing statement run again.
OnRaise_Retry(here) == here

\* An exception leaves configure_training at once: there is no try/except.
OnRaise(here) == "raised"

\* A statement that calls collaborator fn with arguments a.  The call is made
\* (logged); it either returns, the frame becoming L and control moving to
\* next, or raises, which ends configure_training with that exception.
Invoke(c, here, next, fn, a, L) ==
    /\ pc[c] = here
    /\ log' = [log EXCEPT ![c] = Append(@, [fn |-> fn, args |-> a])]
    /\ \/ /\ pc' = [pc EXCEPT ![c] = next]
          /\ locals' = L
          /\ UNCHANGED result
       \/ /\ pc' = [pc EXCEPT ![c] = OnRaise(here)]
          /\ result' = [result EXCEPT ![c] = Raised(fn)]
          /\ UNCHANGED locals
    /\ UNCHANGED <<args, CHAR_VOCAB, VOCAB_SIZE, built, nobjs, evals,
                   local_outputs, weight>>

\* training_specs.RunnerSpec(...)
RunnerSpec(ip, cdf, vf, tf) ==
    [kind |-> "RunnerSpec", iterative_process |-> ip,
     client_datasets_fn |-> cdf, validation_fn |-> vf, test_fn |-> tf]

\* Attribute or item read off a collaborator's object.
Attr(obj, name) == [kind |-> "attr", name |-> name, of |-> obj]

\* Calls enter in index order (the frames are interchangeable).
MayEnter(c) == pc[c] = "idle" /\ \A d \in Calls : d < c => pc[d] # "idle"

\* configure_training is entered; first is its first line.
Enter(c, first) ==
    /\ MayEnter(c)
    /\ pc' = [pc EXCEPT ![c] = first]
    /\ UNCHANGED <<locals, log, result, CHAR_VOCAB, VOCAB_SIZE, built, nobjs,
                   evals, local_outputs, weight>>

\* configure_training(task_spec, model) is called.
EmnistCall(c) ==
    \E ts \in TaskSpecs, m \in ModelFlags :
        /\ Enter(c, "e48")
        /\ args' = [args EXCEPT ![c] =
                       [task |-> "emnist", task_spec |-> ts, model |-> m]]

EmnistFederatedArgs(ts) ==
    [train_client_batch_size |-> ts.client_batch_size,
     train_client_epochs_per_round |-> ts.client_epochs_per_round,
     only_digits |-> FALSE]

\* lines 48-51: emnist_train, _ = emnist_dataset.get_federated_datasets(...)
EmnistGetFederated(c) ==
    LET fn == "emnist_dataset.get_federated_datasets"
        a == EmnistFederatedArgs(args[c].task_spec)
    IN  Invoke(c, "e48", "e53", fn, a, Bind(locals, c, "train", Ret(fn, 1)))

\* line 53: _, emnist_test = emnist_dataset.get_centralized_datasets(...)
EmnistGetCentralized(c) ==
    LET fn == "emnist_dataset.get_centralized_datasets"
        a == [only_digits |-> FALSE]
    IN  Invoke(c, "e53", "e55", fn, a, Bind(locals, c, "test", Ret(fn, 2)))

\* lines 55-56: input_spec = emnist_train.create_tf_dataset_for_client(
\*                  emnist_train.client_ids[0]).element_spec
EmnistInputSpec(c) ==
    LET fn == "create_tf_dataset_for_client"
        tr == locals[c].train
        a == [self |-> tr, client_id |-> Attr(tr, "client_ids[0]")]
    IN  Invoke(c, "e55", "e58", fn, a,
               Bind(locals, c, "input_spec", Attr(Ret(fn, 0), "element_spec")))

\* SelectModel, were the else branch to fall back on the default model.
SelectModel_Fallback(model) ==
    IF model = "2nn"
    THEN partial("emnist_models.create_two_hidden_layer_model", [only_digits |-> FALSE])
    ELSE partial("emnist_models.create_conv_dropout_model", [only_digits |-> FALSE])

\* lines 58-67: the model builder for a model flag, or the ValueError.
SelectModel(model) ==
    IF model = "cnn"
    THEN partial("emnist_models.create_conv_dropout_model", [only_digits |-> FALSE])
    ELSE IF model = "2nn"
    THEN partial("emnist_models.create_two_hidden_layer_model", [only_digits |-> FALSE])
    ELSE ValueErrorOf(model)

\* lines 69-77: loss_builder, metrics_builder and tff_model_fn are bound.
EmnistClosures(L, c) ==
    Bind(Bind(Bind(L, c,
        "loss_builder", ModuleFn("tf.keras.losses.SparseCategoricalCrossentropy")),
        c, "metrics_builder", Closure("metrics_builder")),
        c, "tff_model_fn", Closure("tff_model_fn"))

\* lines 58-77: no collaborator is called; an unknown flag raises.
EmnistSelectModel(c) ==
    LET sel == SelectModel(args[c].model) IN
    /\ pc[c] = "e58"
    /\ IF sel.kind = "error"
       THEN /\ pc' = [pc EXCEPT ![c] = OnRaise("e58")]
            /\ result' = [result EXCEPT ![c] = sel]
            /\ UNCHANGED locals
       ELSE /\ pc' = [pc EXCEPT ![c] = "e79"]
            /\ locals' = EmnistClosures(Bind(locals, c, "model_builder", sel), c)
            /\ UNCHANGED result
    /\ UNCHANGED <<args, log, CHAR_VOCAB, VOCAB_SIZE, built, nobjs, evals,
                   local_outputs, weight>>

EmnistBuilderArgs(f) == [model_fn |-> f.tff_model_fn]

\* line 79: training_process = task_spec.iterative_process_builder(tff_model_fn)
EmnistBuildProcess(c) ==
    LET fn == args[c].task_spec.iterative_process_builder
        a == EmnistBuilderArgs(locals[c])
    IN  Invoke(c, "e79", "e81", fn, a,
               Bind(locals, c, "training_process", Ret(fn, 0)))

ClientDatasetsArgs(f, ts) ==
    [dataset |-> f.train, clients_per_round |-> ts.clients_per_round,
     random_seed |-> ts.client_datasets_random_seed]

\* lines 81-84: client_datasets_fn = training_utils.build_client_datasets_fn(...)
EmnistClientDatasetsFn(c) ==
    LET fn == "training_utils.build_client_datasets_fn"
        a == ClientDatasetsArgs(locals[c], args[c].task_spec)
    IN  Invoke(c, "e81", "e86", fn, a,
               Bind(locals, c, "client_datasets_fn", Ret(fn, 0)))

EvaluateArgs(f) ==
    [eval_dataset |-> f.test, model_builder |-> f.model_builder,
     loss_builder |-> f.loss_builder, metrics_builder |-> f.metrics_builder]

\* lines 86-90: test_fn = training_utils.build_centralized_evaluate_fn(...)
EmnistTestFn(c) ==
    LET fn == "training_utils.build_centralized_evaluate_fn"
        a == EvaluateArgs(locals[c])
    IN  Invoke(c, "e86", "e92", fn, a, Bind(locals, c, "test_fn", Ret(fn, 0)))

\* ReturnValue, were validation_fn not passed on.
ReturnValue_NoValidation(f) ==
    RunnerSpec(f.training_process, f.client_datasets_fn, None, f.test_fn)

\* lines 94-98 / 112-116: the RunnerSpec built from the frame.
ReturnValue(f) ==
    RunnerSpec(f.training_process, f.client_datasets_fn, f.validation_fn, f.test_fn)

\* lines 92-98 / 110-116: validation_fn is bound and the RunnerSpec returned.
Return(c, here) ==
    LET L == Bind(locals, c, "validation_fn", Closure("validation_fn")) IN
    /\ pc[c] = here
    /\ locals' = L
    /\ result' = [result EXCEPT ![c] = ReturnValue(L[c])]
    /\ pc' = [pc EXCEPT ![c] = "returned"]
    /\ UNCHANGED <<args, log, CHAR_VOCAB, VOCAB_SIZE, built, nobjs, evals,
                   local_outputs, weight>>

EmnistReturn(c) == Return(c, "e92")

---------------------------------------------------------------------------
(* federated_shakespeare.py *)

\* VocabSizeOf, were one reserved token forgotten.
VocabSizeOf_ThreeReserved(vocab) == Len(vocab) + 3

\* line 29: VOCAB_SIZE = len(shakespeare_dataset.CHAR_VOCAB) + 4
VocabSizeOf(vocab) == Len(vocab) + 4

\* lines 32-35: create_shakespeare_model(sequence_length): the call it makes.
create_shakespeare_model(sequence_length) ==
    [fn |-> "shakespeare_models.create_recurrent_model",
     args |-> [vocab_size |-> VOCAB_SIZE, sequence_length |-> sequence_length]]

\* configure_training(task_spec, sequence_length) is called.
ShakespeareCall(c) ==
    \E ts \in TaskSpecs, n \in SequenceLengths :
        /\ Enter(c, "s68")
        /\ args' = [args EXCEPT ![c] =
                       [task |-> "shakespeare", task_spec |-> ts,
                        sequence_length |-> n]]

ShakespeareFederatedArgs(ts, n) ==
    [train_client_batch_size |-> ts.client_batch_size,
     train_client_epochs_per_round |-> ts.client_epochs_per_round,
     sequence_length |-> n]

\* lines 68-71: shakespeare_train, _ = shakespeare_dataset.get_federated_datasets(...)
ShakespeareGetFederated(c) ==
    LET fn == "shakespeare_dataset.get_federated_datasets"
        a == ShakespeareFederatedArgs(args[c].task_spec, args[c].sequence_length)
    IN  Invoke(c, "s68", "s73", fn, a, Bind(locals, c, "train", Ret(fn, 1)))

\* lines 73-74: _, shakespeare_test = shakespeare_dataset.get_centralized_datasets(...)
ShakespeareGetCentralized(c) ==
    LET fn == "shakespeare_dataset.get_centralized_datasets"
        a == [sequence_length |-> args[c].sequence_length]
    IN  Invoke(c, "s73", "s76", fn, a, Bind(locals, c, "test", Ret(fn, 2)))

\* lines 76-94: model_builder, loss_builder, input_spec, client_weight_fn and
\* tff_model_fn are bound; metrics_builder is the module's function (line 38).
ShakespeareFrame(L, c, n) ==
    Bind(Bind(Bind(Bind(Bind(Bind(L, c,
        "model_builder", partial("create_shakespeare_model", [sequence_length |-> n])),
        c, "loss_builder", partial("tf.keras.losses.SparseCategoricalCrossentropy",
                                   [from_logits |-> TRUE])),
        c, "input_spec", Attr(L[c].train, "element_type_structure")),
        c, "metrics_builder", ModuleFn("metrics_builder")),
        c, "client_weight_fn", Closure("client_weight_fn")),
        c, "tff_model_fn", Closure("tff_model_fn"))

\* lines 76-94: no collaborator is called.
ShakespeareClosures(c) ==
    /\ pc[c] = "s76"
    /\ pc' = [pc EXCEPT ![c] = "s96"]
    /\ locals' = ShakespeareFrame(locals, c, args[c].sequence_length)
    /\ UNCHANGED <<args, log, result, CHAR_VOCAB, VOCAB_SIZE, built, nobjs,
                   evals, local_outputs, weight>>

\* ShakespeareBuilderArgs, were client_weight_fn not passed.
ShakespeareBuilderArgs_Unweighted(f) == [model_fn |-> f.tff_model_fn]

ShakespeareBuilderArgs(f) ==
    [model_fn |-> f.tff_model_fn, client_weight_fn |-> f.client_weight_fn]

\* lines 96-97: training_process = task_spec.iterative_process_builder(
\*                  tff_model_fn, client_weight_fn=client_weight_fn)
ShakespeareBuildProcess(c) ==
    LET fn == args[c].task_spec.iterative_process_builder
        a == ShakespeareBuilderArgs(locals[c])
    IN  Invoke(c, "s96", "s99", fn, a,
               Bind(locals, c, "training_process", Ret(fn, 0)))

\* lines 99-102: client_datasets_fn = training_utils.build_client_datasets_fn(...)
ShakespeareClientDatasetsFn(c) ==
    LET fn == "training_utils.build_client_datasets_fn"
        a == ClientDatasetsArgs(locals[c], args[c].task_spec)
    IN  Invoke(c, "s99", "s104", fn, a,
               Bind(locals, c, "client_datasets_fn", Ret(fn, 0)))

\* lines 104-108: test_fn = training_utils.build_centralized_evaluate_fn(...)
ShakespeareTestFn(c) ==
    LET fn == "training_utils.build_centralized_evaluate_fn"
        a == EvaluateArgs(locals[c])
    IN  Invoke(c, "s104", "s110", fn, a, Bind(locals, c, "test_fn", Ret(fn, 0)))

ShakespeareReturn(c) == Return(c, "s110")

---------------------------------------------------------------------------
(* Import, and the calls of configure_training *)

Alphabet == <<"a", "b", "c", "d", "e", "f", "g", "h">>

\* A base vocabulary of n characters.
BaseVocab(n) == [i \in 1..n |-> Alphabet[((i - 1) % Len(Alphabet)) + 1]]

NoCalls ==
    /\ pc = [c \in Calls |-> "idle"]
    /\ args = [c \in Calls |-> [task |-> "none"]]
    /\ locals = [c \in Calls |-> NoFrame]
    /\ log = [c \in Calls |-> <<>>]
    /\ result = [c \in Calls |-> None]
    /\ built = <<>>
    /\ nobjs = 0
    /\ evals = [n |-> 0, last |-> None]
    /\ local_outputs = None
    /\ weight = None

\* Both modules are imported: federated_shakespeare sets VOCAB_SIZE.
Import(vocab) ==
    /\ CHAR_VOCAB = vocab
    /\ VOCAB_SIZE = VocabSizeOf(vocab)

\* The statements of the two configure_training bodies.
Statement(c) ==
    \/ EmnistGetFederated(c)
    \/ EmnistGetCentralized(c)
    \/ EmnistInputSpec(c)
    \/ EmnistSelectModel(c)
    \/ EmnistBuildProcess(c)
    \/ EmnistClientDatasetsFn(c)
    \/ EmnistTestFn(c)
    \/ EmnistReturn(c)
    \/ ShakespeareGetFederated(c)
    \/ ShakespeareGetCentralized(c)
    \/ ShakespeareClosures(c)
    \/ ShakespeareBuildProcess(c)
    \/ ShakespeareClientDatasetsFn(c)
    \/ ShakespeareTestFn(c)
    \/ ShakespeareReturn(c)

\* The argument lists of the calls that run side by side.
Scenarios ==
    LET A == CHOOSE ts \in TaskSpecs : ts.clients_per_round = 10
        B == CHOOSE ts \in TaskSpecs : ts.clients_per_round = 2
    IN  { [task |-> "emnist", task_spec |-> A, model |-> "cnn"],
          [task |-> "emnist", task_spec |-> B, model |-> "2nn"],
          [task |-> "emnist", task_spec |-> B, model |-> "resnet"],
          [task |-> "shakespeare", task_spec |-> A, sequence_length |-> 80],
          [task |-> "shakespeare", task_spec |-> B, sequence_length |-> 0] }

InitCalls == Import(BaseVocab(MaxVocabLen)) /\ NoCalls

\* Calls of configure_training, in sequence or interleaved statement by
\* statement (threads of one interpreter).
NextCalls ==
    \E c \in Calls :
        \/ EmnistCall(c) /\ args'[c] \in Scenarios
        \/ ShakespeareCall(c) /\ args'[c] \in Scenarios
        \/ Statement(c)

SpecCalls == InitCalls /\ [][NextCalls]_vars

---------------------------------------------------------------------------
(* The closures at work: tff_model_fn, validation_fn, client_weight_fn *)

\* Calling a builder with no arguments: the constructor call it makes.
\* model_builder and loss_builder are partials or classes; the Shakespeare
\* model_builder goes through create_shakespeare_model (lines 32-35); the
\* EMNIST metrics_builder is the lambda of line 70, the Shakespeare one the
\* module's function of lines 38-47.
Apply(b) ==
    IF b.kind = "partial" /\ b.fn = "create_shakespeare_model"
    THEN create_shakespeare_model(b.kw.sequence_length)
    ELSE IF b.kind = "partial"
    THEN [fn |-> b.fn, args |-> b.kw]
    ELSE IF b.kind = "closure"
    THEN [fn |-> "list", args |->
             <<[fn |-> "tf.keras.metrics.SparseCategoricalAccuracy"]>>]
    ELSE IF b.fn = "metrics_builder"
    THEN [fn |-> "list", args |->
             <<[fn |-> "keras_metrics.NumBatchesCounter"],
               [fn |-> "keras_metrics.NumExamplesCounter"],
               [fn |-> "keras_metrics.NumTokensCounter", masked |-> "pad_token"],
               [fn |-> "keras_metrics.MaskedCategoricalAccuracy",
                masked |-> "pad_token"]>>]
    ELSE [fn |-> b.fn, args |-> <<>>]

\* The object a constructor call allocates: k is its place in the heap.
New(k, call) == [kind |-> "obj", id |-> k, from |-> call]

FactorySteps == <<"model_builder", "loss_builder", "metrics_builder",
                  "from_keras_model">>

\* Index of the step that raises (5: none does).
FailAt(fail) ==
    IF fail = "none" THEN 5
    ELSE CHOOSE i \in 1..4 : FactorySteps[i] = fail

\* tff_model_fn, were the Keras model built once and handed to every
\* invocation.
tff_model_fn_CachedModel(f, k, fail) ==
    LET n == FailAt(fail)
        bs == <<f.model_builder, f.loss_builder, f.metrics_builder>>
        made == IF n > 3 THEN 3 ELSE n - 1
    IN  [used |-> SubSeq(bs, 1, IF n > 3 THEN 3 ELSE n),
         objs |-> [i \in 1..made |->
                      New(IF i = 1 THEN 1 ELSE k + i, Apply(bs[i]))],
         input_spec |-> f.input_spec,
         returned |-> (n = 5)]

\* lines 72-77 / 89-94: tff_model_fn() run in frame f with k objects on the
\* heap.  Keyword arguments are evaluated left to right, then
\* tff.learning.from_keras_model is called; fail names the call that raises.
tff_model_fn(f, k, fail) ==
    LET n == FailAt(fail)
        bs == <<f.model_builder, f.loss_builder, f.metrics_builder>>
        made == IF n > 3 THEN 3 ELSE n - 1
    IN  [used |-> SubSeq(bs, 1, IF n > 3 THEN 3 ELSE n),
         objs |-> [i \in 1..made |-> New(k + i, Apply(bs[i]))],
         input_spec |-> f.input_spec,
         returned |-> (n = 5)]

\* The training process calls the model factory it was built with.
FactoryInvoke(c) ==
    /\ locals[c].training_process # Unbound
    /\ Len(built) < MaxFactoryCalls
    /\ \E fail \in {"none"} \cup {FactorySteps[i] : i \in 1..4} :
         LET r == tff_model_fn(locals[c], nobjs, fail) IN
         /\ built' = Append(built, [frame |-> c] @@ r)
         /\ nobjs' = nobjs + Len(r.objs)
    /\ UNCHANGED <<pc, args, locals, log, result, CHAR_VOCAB, VOCAB_SIZE,
                   evals, local_outputs, weight>>

Weights == {"w0", "w1"}

\* What the evaluation function returns: external, named by its call.
TestResult(call) == [kind |-> "metrics", of |-> call]

\* validation_fn, were it to evaluate on even rounds only.
validation_fn_EvenRounds(f, model_weights, round_num) ==
    LET call == [fn |-> f.test_fn, weights |-> model_weights] IN
    IF round_num % 2 = 0
    THEN [calls |-> <<call>>, out |-> TestResult(call)]
    ELSE [calls |-> <<>>, out |-> None]

\* line 92 / 110: lambda model_weights, round_num: test_fn(model_weights),
\* run in frame f: the calls of test_fn it makes and what it returns.
validation_fn(f, model_weights, round_num) ==
    LET call == [fn |-> f.test_fn, weights |-> model_weights] IN
    [calls |-> <<call>>, out |-> TestResult(call)]

\* The training loop evaluates through RunnerSpec.validation_fn.
CallValidationFn(c) ==
    /\ result[c].kind = "RunnerSpec"
    /\ evals.n < MaxEvalCalls
    /\ \E w \in Weights, r \in 0..MaxRound :
         evals' = [n |-> evals.n + 1,
                   last |-> [kind |-> "call", entry |-> "validation_fn", frame |-> c,
                             weights |-> w, round_num |-> r]
                            @@ validation_fn(locals[c], w, r)]
    /\ UNCHANGED <<pc, args, locals, log, result, CHAR_VOCAB, VOCAB_SIZE,
                   built, nobjs, local_outputs, weight>>

\* The training loop evaluates through RunnerSpec.test_fn.
CallTestFn(c) ==
    /\ result[c].kind = "RunnerSpec"
    /\ evals.n < MaxEvalCalls
    /\ \E w \in Weights :
         LET call == [fn |-> result[c].test_fn, weights |-> w] IN
         evals' = [n |-> evals.n + 1,
                   last |-> [kind |-> "call", entry |-> "test_fn", frame |-> c,
                             weights |-> w,
                             calls |-> <<call>>, out |-> TestResult(call)]]
    /\ UNCHANGED <<pc, args, locals, log, result, CHAR_VOCAB, VOCAB_SIZE,
                   built, nobjs, local_outputs, weight>>

Init == (\E n \in 0..MaxVocabLen : Import(BaseVocab(n))) /\ NoCalls

\* One call of configure_training, and the training loop running on what it
\* returned.
RunCalls == {1}

Next ==
    \E c \in RunCalls :
        \/ EmnistCall(c)
        \/ ShakespeareCall(c)
        \/ Statement(c)
        \/ FactoryInvoke(c)
        \/ CallValidationFn(c)
        \/ CallTestFn(c)

Spec == Init /\ [][Next]_vars

---------------------------------------------------------------------------
(* client_weight_fn *)

Float32Precision == 24

RECURSIVE Pow2(_)
Pow2(n) == IF n = 0 THEN 1 ELSE 2 * Pow2(n - 1)

\* Spacing of the float32 values around n >= 0 (at least 1).
RECURSIVE UlpFrom(_, _)
UlpFrom(n, u) == IF n < Pow2(Float32Precision) * u THEN u ELSE UlpFrom(n, 2 * u)

Ulp(n) == UlpFrom(n, 1)

\* tf.cast(n, tf.float32) of an integer n >= 0: the nearest float32, ties to
\* the even significand.  The float is written as the number it stands for.
CastFloat32(n) ==
    LET u == Ulp(n)
        q == n \div u
        r == n % u
    IN  IF 2 * r > u \/ (2 * r = u /\ q % 2 = 1) THEN (q + 1) * u ELSE q * u

\* tf.squeeze(t): the dimensions of size 1 are removed.
Squeeze(t) == IF Len(t) = 1 THEN t[1] ELSE t

\* client_weight_fn, were the clients weighted by their example counts.
client_weight_fn_ByExamples(lo) == CastFloat32(Squeeze(lo.num_examples))

\* lines 84-87
client_weight_fn(lo) == CastFloat32(Squeeze(lo.num_tokens))

TokenCounts ==
    (0..MaxTokens)
    \cup {Pow2(Float32Precision) + k : k \in (0 - MaxSpread)..MaxSpread}
    \cup {Pow2(Float32Precision + 1) + k : k \in (0 - MaxSpread)..MaxSpread}

ExampleCounts == {1, 3}

InitWeight ==
    /\ Import(BaseVocab(MaxVocabLen))
    /\ pc = [c \in Calls |-> "idle"]
    /\ args = [c \in Calls |-> [task |-> "none"]]
    /\ locals = [c \in Calls |-> NoFrame]
    /\ log = [c \in Calls |-> <<>>]
    /\ result = [c \in Calls |-> None]
    /\ built = <<>>
    /\ nobjs = 0
    /\ evals = [n |-> 0, last |-> None]
    /\ weight = None
    /\ \E n \in TokenCounts, e \in ExampleCounts :
         local_outputs = [num_tokens |-> <<n>>, num_examples |-> <<e>>]

\* The aggregation calls client_weight_fn on a client's outputs.
ClientWeight ==
    /\ weight = None
    /\ weight' = [kind |-> "float32", value |-> client_weight_fn(local_outputs)]
    /\ UNCHANGED <<pc, args, locals, log, result, CHAR_VOCAB, VOCAB_SIZE,
                   built, nobjs, evals, local_outputs>>

NextWeight == ClientWeight

SpecWeight == InitWeight /\ [][NextWeight]_vars

---------------------------------------------------------------------------
(* Properties *)

Range(q) == {q[i] : i \in DOMAIN q}

\* The places in call c's log where fn was invoked.
Entries(c, fn) == {i \in DOMAIN log[c] : log[c][i].fn = fn}

IsEmnist(c) == args[c].task = "emnist"
IsShakespeare(c) == args[c].task = "shakespeare"
HasRaised(c, type) == result[c].kind = "error" /\ result[c].type = type
HasReturned(c) == pc[c] = "returned"

DatasetFns ==
    {"emnist_dataset.get_federated_datasets",
     "emnist_dataset.get_centralized_datasets",
     "create_tf_dataset_for_client"}

\* C1: when the EMNIST configure_training raises the ValueError for a model
\* flag outside the allowed set, no dataset has been loaded
\* (get_federated_datasets, get_centralized_datasets,
\* create_tf_dataset_for_client) and no model constructed.
C1_ValueErrorBeforeAnyConstruction ==
    \A c \in Calls :
        HasRaised(c, "ValueError") =>
            /\ \A i \in DOMAIN log[c] : log[c][i].fn \notin DatasetFns
            /\ \A i \in DOMAIN built : built[i].frame # c

\* C2: a call with an allowed model flag (EMNIST) or any sequence_length
\* (Shakespeare) can stop only on a collaborator's exception, is never stuck
\* before it ends, and what it returns is a RunnerSpec whose four fields are
\* all set.
C2_ValidCallReturnsRunnerSpec ==
    \A c \in Calls :
        (IsShakespeare(c) \/ (IsEmnist(c) /\ args[c].model \in Range(EMNIST_MODELS))) =>
            /\ pc[c] = "raised" => HasRaised(c, "CollaboratorError")
            /\ pc[c] \notin {"raised", "returned"} =>
                   result[c] = None /\ ENABLED Statement(c)
            /\ HasReturned(c) =>
                   /\ result[c].kind = "RunnerSpec"
                   /\ \A v \in {result[c].iterative_process,
                                result[c].client_datasets_fn,
                                result[c].validation_fn,
                                result[c].test_fn} : v \notin {None, Unbound}
                   /\ result[c].validation_fn = Closure("validation_fn")
                   /\ \A i \in DOMAIN log[c] : Raised(log[c][i].fn) # result[c]

C2_Witness ==
    /\ HasReturned(1)
    /\ IsEmnist(1)
    /\ args[1].model = "2nn"
    /\ result[1].kind = "RunnerSpec"

\* C3: a call validation_fn(weights, round_num) of a returned RunnerSpec
\* calls that RunnerSpec's test_fn exactly once, with the same weights, and
\* returns what test_fn(weights) returns, whatever round_num is.
C3_ValidationIsTest ==
    evals.last.kind = "call" /\ evals.last.entry = "validation_fn" =>
        LET v == evals.last
            call == [fn |-> result[v.frame].test_fn, weights |-> v.weights]
        IN  /\ v.calls = <<call>>
            /\ v.out = TestResult(call)

C3_Witness ==
    /\ evals.n = 2
    /\ evals.last.kind = "call"
    /\ evals.last.entry = "validation_fn"
    /\ evals.last.round_num = 1
    /\ evals.last.out = TestResult([fn |-> locals[1].test_fn, weights |-> "w1"])

\* The text Python prints for the ValueError of model flag m.
ExpectedMessage(m) ==
    <<"Cannot handle model flag [", m, "], must be one of ",
      "[", "'", "cnn", "'", ", ", "'", "2nn", "'", "]", ".">>

\* C4: the EMNIST configurator goes past the model selection exactly for the
\* flags in EMNIST_MODELS; a flag outside it ends the call, once the datasets
\* are loaded, with a ValueError whose message holds the flag and every name
\* of EMNIST_MODELS.
C4_AllowList ==
    \A c \in Calls :
        /\ IsEmnist(c) =>
            /\ locals[c].model_builder # Unbound =>
                   args[c].model \in Range(EMNIST_MODELS)
            /\ (pc[c] \notin {"e48", "e53", "e55", "e58"}
                /\ ~HasRaised(c, "CollaboratorError")
                /\ args[c].model \notin Range(EMNIST_MODELS)) =>
                   HasRaised(c, "ValueError")
            /\ HasRaised(c, "ValueError") =>
                /\ pc[c] = "raised"
                /\ args[c].model \notin Range(EMNIST_MODELS)
                /\ args[c].model \in Range(result[c].msg)
                /\ Range(EMNIST_MODELS) \subseteq Range(result[c].msg)
                /\ result[c].msg = ExpectedMessage(args[c].model)
        /\ IsShakespeare(c) => ~HasRaised(c, "ValueError")

C4_Witness ==
    /\ IsEmnist(1)
    /\ args[1].model = "resnet"
    /\ HasRaised(1, "ValueError")

\* C5: a collaborator's exception ends the call with that very exception:
\* the failing call is the last one the call made, it was made once (as is
\* every collaborator call), the return statement is never reached and no
\* RunnerSpec is returned.
C5_FailurePropagates ==
    \A c \in Calls :
        /\ HasRaised(c, "CollaboratorError") =>
            /\ pc[c] = "raised"
            /\ log[c] # <<>>
            /\ result[c] = Raised(log[c][Len(log[c])].fn)
            /\ Cardinality(Entries(c, result[c].from)) = 1
            /\ locals[c].validation_fn = Unbound
        /\ \A i \in DOMAIN log[c] : Cardinality(Entries(c, log[c][i].fn)) = 1
        /\ pc[c] = "raised" <=> result[c].kind = "error"
        /\ pc[c] = "returned" <=> result[c].kind = "RunnerSpec"

C5_Witness ==
    /\ HasRaised(1, "CollaboratorError")
    /\ result[1].from = "training_utils.build_client_datasets_fn"
    /\ Len(log[1]) = 5
    /\ locals[1].training_process # Unbound

\* C9: a call that returns has invoked task_spec.iterative_process_builder
\* exactly once, with tff_model_fn as model_fn and, for Shakespeare only,
\* client_weight_fn; what the builder returned is the RunnerSpec's
\* iterative_process.  A call that raised the ValueError never invoked it.
C9_BuilderOnce ==
    \A c \in Calls :
        /\ HasReturned(c) =>
            LET fn == args[c].task_spec.iterative_process_builder IN
            /\ Cardinality(Entries(c, fn)) = 1
            /\ \A i \in Entries(c, fn) :
                /\ log[c][i].args.model_fn = Closure("tff_model_fn")
                /\ IsEmnist(c) => DOMAIN log[c][i].args = {"model_fn"}
                /\ IsShakespeare(c) =>
                    /\ DOMAIN log[c][i].args = {"model_fn", "client_weight_fn"}
                    /\ log[c][i].args.client_weight_fn = Closure("client_weight_fn")
            /\ result[c].iterative_process = Ret(fn, 0)
        /\ HasRaised(c, "ValueError") =>
            Entries(c, args[c].task_spec.iterative_process_builder) = {}

C9_Witness ==
    /\ HasReturned(1)
    /\ IsShakespeare(1)
    /\ Cardinality(Entries(1, "builder_b")) = 1

\* The variables of call c.
Frame(c) == <<pc[c], args[c], locals[c], log[c], result[c]>>

\* C7 (state part): two calls given the same arguments that stand at the
\* same place with the same outcome have made the same collaborator calls
\* and hold the same bindings; a returned call's client_datasets_fn was built
\* from that call's own task_spec and dataset, its test_fn from its own
\* builders.
SameWiring ==
    /\ \A c, d \in Calls :
        (args[c] = args[d] /\ pc[c] = pc[d] /\ result[c] = result[d]) =>
            log[c] = log[d] /\ locals[c] = locals[d]
    /\ \A c \in Calls :
        HasReturned(c) =>
            /\ \A i \in Entries(c, "training_utils.build_client_datasets_fn") :
                log[c][i].args =
                    [dataset |-> locals[c].train,
                     clients_per_round |-> args[c].task_spec.clients_per_round,
                     random_seed |-> args[c].task_spec.client_datasets_random_seed]
            /\ \A i \in Entries(c, "training_utils.build_centralized_evaluate_fn") :
                log[c][i].args.model_builder = locals[c].model_builder
            /\ result[c] = ReturnValue(locals[c])

\* C7: a step of one call changes nothing of any other call nor any module
\* global; a call that has ended (its RunnerSpec and the frame its closures
\* read) is never changed again; and calls are wired by their own arguments
\* alone.
C7_CallsIndependent ==
    [][ /\ \A c \in Calls :
            (pc'[c] = pc[c] \/ pc[c] \in {"returned", "raised"}) =>
                Frame(c)' = Frame(c)
        /\ Cardinality({c \in Calls : Frame(c)' # Frame(c)}) <= 1
        /\ <<CHAR_VOCAB, VOCAB_SIZE>>' = <<CHAR_VOCAB, VOCAB_SIZE>>
        /\ SameWiring' ]_vars

C7_Witness ==
    /\ HasReturned(1)
    /\ HasReturned(2)
    /\ IsEmnist(1)
    /\ IsShakespeare(2)
    /\ args[1].task_spec # args[2].task_spec
    /\ result[1] # result[2]

\* C8: VOCAB_SIZE is the length of the base vocabulary plus four, and every
\* recurrent model built through create_shakespeare_model was given that
\* vocab_size.
C8_VocabSize ==
    /\ VOCAB_SIZE = Len(CHAR_VOCAB) + 4
    /\ \A i \in DOMAIN built : \A j \in DOMAIN built[i].objs :
        LET o == built[i].objs[j] IN
        o.from.fn = "shakespeare_models.create_recurrent_model" =>
            /\ o.from.args.vocab_size = Len(CHAR_VOCAB) + 4
            /\ o.from.args.sequence_length = args[built[i].frame].sequence_length

C8_Witness ==
    /\ Len(CHAR_VOCAB) = 2
    /\ built # <<>>
    /\ \E j \in DOMAIN built[1].objs :
        /\ built[1].objs[j].from.fn = "shakespeare_models.create_recurrent_model"
        /\ built[1].objs[j].from.args.vocab_size = 6

\* C10: an invocation of tff_model_fn calls the call's model_builder,
\* loss_builder and metrics_builder, in that order and each at most once,
\* all three exactly once when it returns; they are the builders the call
\* gives build_centralized_evaluate_fn; and the model, loss and metrics of an
\* invocation are objects no other invocation (and no other argument) holds.
C10_TrainingMatchesEvaluation ==
    \A i \in DOMAIN built :
        LET b == built[i]
            c == b.frame
            bs == <<locals[c].model_builder, locals[c].loss_builder,
                    locals[c].metrics_builder>>
        IN  /\ Len(b.used) <= 3
            /\ b.used = SubSeq(bs, 1, Len(b.used))
            /\ b.returned => b.used = bs /\ Len(b.objs) = 3
            /\ \A e \in Entries(c, "training_utils.build_centralized_evaluate_fn") :
                b.returned =>
                    b.used = <<log[c][e].args.model_builder,
                               log[c][e].args.loss_builder,
                               log[c][e].args.metrics_builder>>
            /\ \A j \in DOMAIN b.objs :
                /\ b.objs[j].from = Apply(bs[j])
                /\ \A k \in DOMAIN b.objs : k # j => b.objs[k].id # b.objs[j].id
                /\ \A h \in DOMAIN built : h # i =>
                    \A k \in DOMAIN built[h].objs :
                        built[h].objs[k].id # b.objs[j].id

C10_Witness ==
    /\ Len(built) = 2
    /\ built[1].returned
    /\ built[2].returned
    /\ HasReturned(1)
    /\ IsEmnist(1)

\* C6 as stated: the weight is the token count itself, for every count.
C6_WeightIsCountAlways ==
    weight.kind = "float32" => weight.value = local_outputs.num_tokens[1]

\* C6, amended: the weight is a float32 nearest to the count N: N itself for
\* every N up to 2^24, and within half a float32 spacing of N above that.
C6_WeightIsNearestFloat32 ==
    weight.kind = "float32" =>
        LET N == local_outputs.num_tokens[1]
            w == weight.value
            d == IF w >= N THEN w - N ELSE N - w
        IN  /\ N <= Pow2(24) => w = N
            /\ w % Ulp(N) = 0
            /\ 2 * d <= Ulp(N)

C6_Witness ==
    /\ weight.kind = "float32"
    /\ local_outputs.num_tokens = <<Pow2(24) - 1>>
    /\ weight.value = 16777215

====
